---- MODULE Spec2Model ----
(***************************************************************************)
(* SpaceX launch records dashboard (spacex-dash-app.py).                   *)
(*                                                                         *)
(* The module-level dataset and the two Dash callbacks, get_pie_chart and  *)
(* get_scatter_chart, with the wiring of the controls to the callbacks.    *)
(*                                                                         *)
(* Units: payload masses are integers (kg).  A number formatted with       *)
(* Python's ":.2f" is modelled by its count of hundredths after rounding:  *)
(* "66.67" is 6667.  A rate mean()*100 is kept as the exact fraction       *)
(* <<100 * sum, count>>.  A string built by an f-string is the tuple of    *)
(* its pieces.                                                             *)
(***************************************************************************)
EXTENDS Integers, Sequences, FiniteSets

VARIABLES
    csv_rows,                       \* rows of spacex_launch_dash.csv
    spacex_df,                      \* the module-level data frame
    max_payload, min_payload,       \* module-level, computed at load
    launch_sites,                   \* module-level, computed at load
    site_dropdown,                  \* value of dcc.Dropdown 'site-dropdown'
    payload_slider,                 \* value of dcc.RangeSlider 'payload-slider'
    success_pie_chart,              \* figure of dcc.Graph 'success-pie-chart'
    success_payload_scatter_chart,  \* figure of 'success-payload-scatter-chart'
    booster_stats_display,          \* children of 'booster-stats-display'
    pending,                        \* callback requests not yet run
    changes,                        \* the control changes so far, in order
    ncalls,                         \* per change, the callback runs it caused
    last_call                       \* the callback run last, with its inputs

vars == <<csv_rows, spacex_df, max_payload, min_payload, launch_sites,
          site_dropdown, payload_slider, success_pie_chart,
          success_payload_scatter_chart, booster_stats_display,
          pending, changes, ncalls, last_call>>

dataVars == <<csv_rows, max_payload, min_payload, launch_sites>>

-----------------------------------------------------------------------------
(* Bounds and input domains *)

MaxRows == 2        \* longest enumerated dataset
MaxChanges == 2     \* control changes in one run of the dashboard

SliderMin == 0
SliderMax == 10000
SliderStep == 1000

Sites == {"SiteA", "SiteB"}
Boosters == {"BoosterX", "BoosterY"}
Payloads == {0, 1000}

None == "None"      \* the value of a cleared dropdown; str(None) is "None"

LaunchRecord == [site : Sites, payload : Payloads, booster : Boosters, class : {0, 1}]

Row(s, p, b, c) == [site |-> s, payload |-> p, booster |-> b, class |-> c]

\* the dataset of the specification's worked example
ExampleDataset ==
    << Row("SiteA", 500, "BoosterX", 1),
       Row("SiteA", 1500, "BoosterY", 0),
       Row("SiteB", 2000, "BoosterX", 1) >>

\* two boosters with equal rates, and a payload on each end of the slider
TieDataset ==
    << Row("SiteA", 0, "BoosterX", 1),
       Row("SiteB", 10000, "BoosterY", 1) >>

Datasets == UNION {[1..n -> LaunchRecord] : n \in 1..MaxRows} \cup {ExampleDataset}

SiteInputs == {"ALL"} \cup Sites \cup {None}

RangeInputs ==
    {r \in {0, 1000, 2000} \X {0, 1000, 2000} : r[1] <= r[2]} \cup {<<0, SliderMax>>}

SeqPerms(S) ==
    {p \in [1..Cardinality(S) -> S] : \A i, j \in 1..Cardinality(S) : p[i] = p[j] => i = j}

-----------------------------------------------------------------------------
(* pandas helpers *)

RECURSIVE SumClass(_)
SumClass(df) == IF df = <<>> THEN 0 ELSE Head(df).class + SumClass(Tail(df))

ColumnMaxFirstRow(df) == df[1].payload

\* spacex_df['Payload Mass (kg)'].max()
RECURSIVE ColumnMax(_)
ColumnMax(df) ==
    IF Len(df) = 1 THEN df[1].payload
    ELSE LET m == ColumnMax(Tail(df))
         IN  IF df[1].payload > m THEN df[1].payload ELSE m

\* spacex_df['Payload Mass (kg)'].min()
RECURSIVE ColumnMin(_)
ColumnMin(df) ==
    IF Len(df) = 1 THEN df[1].payload
    ELSE LET m == ColumnMin(Tail(df))
         IN  IF df[1].payload < m THEN df[1].payload ELSE m

\* Series.unique().tolist(): the distinct values in order of first appearance
RECURSIVE UniqueSites(_, _)
UniqueSites(df, seen) ==
    IF df = <<>> THEN <<>>
    ELSE IF Head(df).site \in seen THEN UniqueSites(Tail(df), seen)
    ELSE <<Head(df).site>> \o UniqueSites(Tail(df), seen \cup {Head(df).site})

PayloadFilterExclusive(df, low, high) ==
    SelectSeq(df, LAMBDA r : r.payload > low /\ r.payload < high)

\* spacex_df[(df['Payload Mass (kg)'] >= low) & (df['Payload Mass (kg)'] <= high)]
PayloadFilter(df, low, high) ==
    SelectSeq(df, LAMBDA r : r.payload >= low /\ r.payload <= high)

SiteFilterOrAll(df, entered_site) ==
    LET f == SelectSeq(df, LAMBDA r : r.site = entered_site)
    IN  IF f = <<>> THEN df ELSE f

\* df[df['Launch Site'] == entered_site]
SiteFilter(df, entered_site) ==
    SelectSeq(df, LAMBDA r : r.site = entered_site)

BoosterFilter(df, category) ==
    SelectSeq(df, LAMBDA r : r.booster = category)

GroupCountBySite(df) ==
    [s \in {df[i].site : i \in DOMAIN df} |-> Len(SiteFilter(df, s))]

\* df.groupby('Launch Site')['class'].sum().reset_index(): one row per site
GroupSumBySite(df) ==
    [s \in {df[i].site : i \in DOMAIN df} |-> SumClass(SiteFilter(df, s))]

ValueCountsOfClassOne(df) ==
    [c \in {df[i].class : i \in DOMAIN df} |-> SumClass(df)]

\* px.pie(df, names='class'): one slice per class present, sized by its row count
ValueCountsByClass(df) ==
    [c \in {df[i].class : i \in DOMAIN df} |->
        Len(SelectSeq(df, LAMBDA r : r.class = c))]

\* Series.mean() * 100 over a non-empty frame, as the fraction <<100 * sum, count>>
MeanTimes100(df) == <<100 * SumClass(df), Len(df)>>

\* df.groupby('Booster Version Category')['class'].mean() * 100
GroupRateByBooster(df) ==
    [b \in {df[i].booster : i \in DOMAIN df} |-> MeanTimes100(BoosterFilter(df, b))]

RateLess(a, b) == a[1] * b[2] < b[1] * a[2]

PlacedBeforeAscending(a, b) == RateLess(a, b)

\* sort_values(ascending=False) places a before b when a's rate is the greater
PlacedBefore(a, b) == RateLess(b, a)

\* one insertion step of the sort: c goes before the first entry it must precede
RECURSIVE InsertByRate(_, _, _)
InsertByRate(sorted, c, rates) ==
    IF sorted = <<>> THEN <<c>>
    ELSE IF PlacedBefore(rates[c], rates[Head(sorted)]) THEN <<c>> \o sorted
    ELSE <<Head(sorted)>> \o InsertByRate(Tail(sorted), c, rates)

RECURSIVE SortKeys(_, _)
SortKeys(keys, rates) ==
    IF keys = <<>> THEN <<>>
    ELSE InsertByRate(SortKeys(SubSeq(keys, 1, Len(keys) - 1), rates),
                      keys[Len(keys)], rates)

\* Series.sort_values(ascending=False).  The default sort kind is not stable, so
\* the order among equal rates is left to tie_order, a permutation of the keys.
SortValuesDescending(rates, tie_order) ==
    SortKeys(SelectSeq(tie_order, LAMBDA c : c \in DOMAIN rates), rates)

Format2fTruncated(rate) == (100 * rate[1]) \div rate[2]

\* f"{rate:.2f}": the hundredths of the rate, rounded to nearest, ties to even
Format2f(rate) ==
    LET q == (100 * rate[1]) \div rate[2]
        r == (100 * rate[1]) % rate[2]
    IN  IF 2 * r < rate[2] THEN q
        ELSE IF 2 * r > rate[2] THEN q + 1
        ELSE IF q % 2 = 0 THEN q ELSE q + 1

-----------------------------------------------------------------------------
(* The two callbacks *)

NoFigure == [title |-> <<>>]

\* @app.callback(Output('success-pie-chart', 'figure'), Input('site-dropdown', 'value'))
get_pie_chart(df, entered_site) ==
    IF entered_site = "ALL"
    THEN [title  |-> <<"Total Successful Launches by Site">>,
          slices |-> GroupSumBySite(df)]
    ELSE [title  |-> <<"Launch Outcomes (Success/Failure) for ", entered_site>>,
          slices |-> ValueCountsByClass(SiteFilter(df, entered_site))]

\* step 2 of get_scatter_chart: the frame to plot
FrameToPlot(df, entered_site, payload_range) ==
    LET payload_filtered_df == PayloadFilter(df, payload_range[1], payload_range[2])
    IN  IF entered_site = "ALL" THEN payload_filtered_df
        ELSE SiteFilter(payload_filtered_df, entered_site)

BaseTitle(entered_site) ==
    IF entered_site = "ALL"
    THEN <<"Payload vs. Success Correlation (All Sites)">>
    ELSE <<"Payload vs. Success Correlation for ", entered_site>>

TitleSuffixUnguarded(df_to_plot) ==
    IF Len(df_to_plot) > 0
    THEN <<" - Overall Success: ", Format2f(MeanTimes100(df_to_plot)), "%">>
    ELSE <<" - Overall Success: ", "nan", "%">>

\* step 3 of get_scatter_chart
TitleSuffix(df_to_plot) ==
    IF Len(df_to_plot) > 0
    THEN <<" - Overall Success: ", Format2f(MeanTimes100(df_to_plot)), "%">>
    ELSE <<" - (No Data for this selection)">>

BoosterStatsHeader == <<"H5", "Booster Success Rates (Current Selection):">>

\* step 5 of get_scatter_chart
BoosterStatsChildren(df_to_plot, tie_order) ==
    IF Len(df_to_plot) > 0
    THEN LET booster_rates == GroupRateByBooster(df_to_plot)
             sorted == SortValuesDescending(booster_rates, tie_order)
         IN  <<BoosterStatsHeader>> \o
             [i \in 1..Len(sorted) |->
                 <<"P", sorted[i], ": ", Format2f(booster_rates[sorted[i]]), "%">>]
    ELSE <<>>

\* @app.callback([Output('success-payload-scatter-chart', 'figure'),
\*                Output('booster-stats-display', 'children')],
\*               [Input('site-dropdown', 'value'), Input('payload-slider', 'value')])
get_scatter_chart(df, entered_site, payload_range, tie_order) ==
    LET df_to_plot == FrameToPlot(df, entered_site, payload_range)
        final_title == BaseTitle(entered_site) \o TitleSuffix(df_to_plot)
    IN  << [title |-> final_title, data_frame |-> df_to_plot],
           BoosterStatsChildren(df_to_plot, tie_order) >>

FrameAfterFilterInPlace(df, payload_range) ==
    PayloadFilter(df, payload_range[1], payload_range[2])

\* spacex_df after get_scatter_chart has run: the filters bind local names only
FrameAfterScatter(df, payload_range) == df

-----------------------------------------------------------------------------
(* Start of the process: lines 10-16 and the layout's default control values *)

NoCall == [cb |-> "none", args |-> <<>>, change |-> 0]

Load(rows) ==
    /\ csv_rows = rows
    /\ spacex_df = rows
    /\ max_payload = ColumnMax(rows)
    /\ min_payload = ColumnMin(rows)
    /\ launch_sites = UniqueSites(rows, {})
    /\ site_dropdown = "ALL"
    /\ payload_slider = <<ColumnMin(rows), ColumnMax(rows)>>
    /\ success_pie_chart = NoFigure
    /\ success_payload_scatter_chart = NoFigure
    /\ booster_stats_display = <<>>
    /\ changes = <<>>
    /\ ncalls = <<>>
    /\ last_call = NoCall

-----------------------------------------------------------------------------
(* SpecAgg: each callback applied once, directly, to arbitrary inputs *)

InitAgg ==
    /\ \E rows \in Datasets : Load(rows)
    /\ pending = {}

InvokePie(entered_site) ==
    /\ last_call = NoCall
    /\ success_pie_chart' = get_pie_chart(spacex_df, entered_site)
    /\ last_call' = [cb |-> "get_pie_chart", args |-> <<entered_site>>, change |-> 0]
    /\ UNCHANGED <<dataVars, spacex_df, site_dropdown, payload_slider,
                   success_payload_scatter_chart, booster_stats_display,
                   pending, changes, ncalls>>

InvokeScatter(entered_site, payload_range, tie_order) ==
    /\ last_call = NoCall
    /\ LET out == get_scatter_chart(spacex_df, entered_site, payload_range, tie_order)
       IN  /\ success_payload_scatter_chart' = out[1]
           /\ booster_stats_display' = out[2]
    /\ spacex_df' = FrameAfterScatter(spacex_df, payload_range)
    /\ last_call' = [cb |-> "get_scatter_chart",
                     args |-> <<entered_site, payload_range>>, change |-> 0]
    /\ UNCHANGED <<dataVars, site_dropdown, payload_slider, success_pie_chart,
                   pending, changes, ncalls>>

NextAgg ==
    \/ \E s \in SiteInputs : InvokePie(s)
    \/ \E s \in SiteInputs, r \in RangeInputs \cup {payload_slider},
          t \in SeqPerms(Boosters) : InvokeScatter(s, r, t)

SpecAgg == InitAgg /\ [][NextAgg]_vars

-----------------------------------------------------------------------------
(* Spec: the dashboard.  Dash runs every callback once when the page loads   *)
(* and then, on each change of a control, every callback that lists the      *)
(* control as an Input, with the values the controls have at the change.     *)

CallbackInputsPieOnBoth ==
    [get_pie_chart     |-> <<"site-dropdown", "payload-slider">>,
     get_scatter_chart |-> <<"site-dropdown", "payload-slider">>]

\* the Input lists of the two @app.callback decorators
CallbackInputs ==
    [get_pie_chart     |-> <<"site-dropdown">>,
     get_scatter_chart |-> <<"site-dropdown", "payload-slider">>]

Callbacks == DOMAIN CallbackInputs

ControlValue(control, site, range) ==
    IF control = "site-dropdown" THEN site ELSE range

Request(cb, change, site, range) ==
    [cb     |-> cb,
     args   |-> [i \in DOMAIN CallbackInputs[cb] |->
                    ControlValue(CallbackInputs[cb][i], site, range)],
     change |-> change]

Triggered(control) ==
    {cb \in Callbacks : \E i \in DOMAIN CallbackInputs[cb] : CallbackInputs[cb][i] = control}

\* the options of the dropdown: 'ALL' and the launch sites of the dataset
SiteOptions == {"ALL"} \cup {launch_sites[i] : i \in DOMAIN launch_sites}

SliderStops ==
    {SliderMin + k * SliderStep : k \in 0..((SliderMax - SliderMin) \div SliderStep)}

\* the slider positions tried
SliderInputs ==
    (SliderStops \X SliderStops) \cap
    {<<0, 1000>>, <<1000, 2000>>, <<3000, 10000>>, <<0, 10000>>}

UIDatasets == {ExampleDataset, TieDataset}

Init ==
    /\ \E rows \in UIDatasets : Load(rows)
    /\ pending = {Request(cb, 0, "ALL", payload_slider) : cb \in Callbacks}

NoCalls == [cb \in Callbacks |-> 0]

Change(control, site, range) ==
    /\ Len(changes) < MaxChanges
    /\ changes' = Append(changes, [control |-> control, site |-> site, range |-> range])
    /\ ncalls' = Append(ncalls, NoCalls)
    /\ pending' = pending \cup
          {Request(cb, Len(changes) + 1, site, range) : cb \in Triggered(control)}
    /\ UNCHANGED <<dataVars, spacex_df, success_pie_chart,
                   success_payload_scatter_chart, booster_stats_display, last_call>>

SelectSite(s) ==
    /\ s # site_dropdown
    /\ site_dropdown' = s
    /\ UNCHANGED payload_slider
    /\ Change("site-dropdown", s, payload_slider)

ClearSite ==
    /\ site_dropdown # None
    /\ site_dropdown' = None
    /\ UNCHANGED payload_slider
    /\ Change("site-dropdown", None, payload_slider)

MoveSlider(r) ==
    /\ r # payload_slider
    /\ payload_slider' = r
    /\ UNCHANGED site_dropdown
    /\ Change("payload-slider", site_dropdown, r)

Served(req) ==
    /\ pending' = pending \ {req}
    /\ ncalls' = IF req.change = 0 THEN ncalls
                 ELSE [ncalls EXCEPT ![req.change][req.cb] = @ + 1]
    /\ last_call' = req
    /\ UNCHANGED <<dataVars, site_dropdown, payload_slider, changes>>

RunPie(req) ==
    /\ req \in pending
    /\ req.cb = "get_pie_chart"
    /\ success_pie_chart' = get_pie_chart(spacex_df, req.args[1])
    /\ UNCHANGED <<spacex_df, success_payload_scatter_chart, booster_stats_display>>
    /\ Served(req)

RunScatter(req, tie_order) ==
    /\ req \in pending
    /\ req.cb = "get_scatter_chart"
    /\ LET out == get_scatter_chart(spacex_df, req.args[1], req.args[2], tie_order)
       IN  /\ success_payload_scatter_chart' = out[1]
           /\ booster_stats_display' = out[2]
    /\ spacex_df' = FrameAfterScatter(spacex_df, req.args[2])
    /\ UNCHANGED success_pie_chart
    /\ Served(req)

Next ==
    \/ \E s \in SiteOptions : SelectSite(s)
    \/ ClearSite
    \/ \E r \in SliderInputs : MoveSlider(r)
    \/ \E req \in pending : RunPie(req)
    \/ \E req \in pending, t \in SeqPerms(Boosters) : RunScatter(req, t)

Spec == Init /\ [][Next]_vars

-----------------------------------------------------------------------------
(* Properties.  The expected values below are stated over index sets of the  *)
(* dataset, independently of the operators the callbacks are built from.     *)

RowsOf(df) == {df[i] : i \in DOMAIN df}

Occurrences(df, r) == Cardinality({i \in DOMAIN df : df[i] = r})

SitesIn(df) == {df[i].site : i \in DOMAIN df}

BoostersIn(df) == {df[i].booster : i \in DOMAIN df}

Successes(df) == Cardinality({i \in DOMAIN df : df[i].class = 1})

SiteRows(df, s) == {i \in DOMAIN df : df[i].site = s}

BoosterRows(df, b) == {i \in DOMAIN df : df[i].booster = b}

BoosterSuccesses(df, b) == {i \in DOMAIN df : df[i].booster = b /\ df[i].class = 1}

InSelection(r, s, range) ==
    /\ range[1] <= r.payload
    /\ r.payload <= range[2]
    /\ (s # "ALL" => r.site = s)

RECURSIVE SliceTotal(_)
SliceTotal(slices) ==
    IF DOMAIN slices = {} THEN 0
    ELSE LET x == CHOOSE x \in DOMAIN slices : TRUE
         IN  slices[x] + SliceTotal([y \in DOMAIN slices \ {x} |-> slices[y]])

\* shown, in hundredths, is num/den * 100 rounded to the nearest hundredth
ShowsRate(shown, num, den) ==
    LET d == shown * den - 10000 * num
    IN  2 * d <= den /\ -2 * d <= den

PieCalled == last_call.cb = "get_pie_chart"
ScatterCalled == last_call.cb = "get_scatter_chart"
EnteredSite == last_call.args[1]
PayloadRange == last_call.args[2]
Plotted == success_payload_scatter_chart.data_frame
Title == success_payload_scatter_chart.title
NoDataTitle(s) == BaseTitle(s) \o <<" - (No Data for this selection)">>
HasRateSuffix(title) == \E i \in DOMAIN title : title[i] = " - Overall Success: "

\* C1: the rows get_scatter_chart plots are exactly the records with
\* low <= payload <= high and, unless the site is "ALL", the selected site; with
\* "ALL" and a range from 0 up to the largest payload every record is plotted.
C1_ScatterRows ==
    ScatterCalled =>
        /\ \A r \in RowsOf(spacex_df) \cup RowsOf(Plotted) :
              Occurrences(Plotted, r) =
                 IF InSelection(r, EnteredSite, PayloadRange)
                 THEN Occurrences(spacex_df, r) ELSE 0
        /\ (EnteredSite = "ALL" /\ PayloadRange[1] = 0 /\ PayloadRange[2] >= max_payload)
              => Len(Plotted) = Len(spacex_df)

C1_Witness ==
    /\ ScatterCalled
    /\ EnteredSite # "ALL"
    /\ Plotted # <<>>
    /\ \E i, j \in DOMAIN spacex_df :
          /\ spacex_df[i].site = EnteredSite
          /\ spacex_df[i].payload < PayloadRange[1]
          /\ spacex_df[j].site # EnteredSite
          /\ spacex_df[j].payload = PayloadRange[2]

\* C2: get_pie_chart("ALL") has one slice per distinct site of the dataset, sites
\* without a success included, sized by the site's count of successes; the slices
\* total the successes of the whole dataset.
C2_PieAllSites ==
    (PieCalled /\ EnteredSite = "ALL") =>
        LET slices == success_pie_chart.slices
        IN  /\ DOMAIN slices = SitesIn(spacex_df)
            /\ \A s \in SitesIn(spacex_df) :
                  slices[s] = Cardinality({i \in SiteRows(spacex_df, s) : spacex_df[i].class = 1})
            /\ SliceTotal(slices) = Successes(spacex_df)
            /\ success_pie_chart.title = <<"Total Successful Launches by Site">>

C2_Witness ==
    /\ PieCalled
    /\ EnteredSite = "ALL"
    /\ \E s, t \in DOMAIN success_pie_chart.slices :
          success_pie_chart.slices[s] = 0 /\ success_pie_chart.slices[t] > 0

\* C3: for a site s of the dataset, get_pie_chart(s) has one slice per outcome
\* class present among the site's records and none for an absent class, sized by
\* the count of those records; the slices total the site's record count.
C3_PieOneSite ==
    (PieCalled /\ EnteredSite \in SitesIn(spacex_df)) =>
        LET slices == success_pie_chart.slices
            rows == SiteRows(spacex_df, EnteredSite)
        IN  /\ DOMAIN slices = {spacex_df[i].class : i \in rows}
            /\ \A c \in DOMAIN slices :
                  slices[c] = Cardinality({i \in rows : spacex_df[i].class = c})
            /\ SliceTotal(slices) = Cardinality(rows)

C3_Witness ==
    /\ PieCalled
    /\ EnteredSite \in SitesIn(spacex_df)
    /\ DOMAIN success_pie_chart.slices = {1}
    /\ success_pie_chart.slices[1] < Len(spacex_df)

\* C4: for a non-empty plotted frame the booster summary lists, after its
\* heading, each booster category of the plotted frame exactly once, with the
\* rate 100 * successes / records of that category within the plotted frame, in
\* order of non-increasing rate.
C4_BoosterSummary ==
    (ScatterCalled /\ Plotted # <<>>) =>
        LET entries == Tail(booster_stats_display)
            succ(i) == Cardinality(BoosterSuccesses(Plotted, entries[i][2]))
            cnt(i) == Cardinality(BoosterRows(Plotted, entries[i][2]))
        IN  /\ Head(booster_stats_display) = BoosterStatsHeader
            /\ {entries[i][2] : i \in DOMAIN entries} = BoostersIn(Plotted)
            /\ Len(entries) = Cardinality(BoostersIn(Plotted))
            /\ \A i \in DOMAIN entries : ShowsRate(entries[i][4], succ(i), cnt(i))
            /\ \A i, j \in DOMAIN entries :
                  i < j => succ(i) * cnt(j) >= succ(j) * cnt(i)

C4_Witness ==
    /\ ScatterCalled
    /\ Len(Plotted) < Len(spacex_df)
    /\ Len(booster_stats_display) = 3
    /\ booster_stats_display[2][4] > booster_stats_display[3][4]

\* C5: with low above the largest payload of the dataset, get_scatter_chart
\* plots no row, its title ends with the no-data suffix and carries no success
\* rate, and the booster summary is empty.
C5_AboveMaxPayload ==
    (ScatterCalled /\ PayloadRange[1] > max_payload) =>
        /\ Plotted = <<>>
        /\ Title = NoDataTitle(EnteredSite)
        /\ ~HasRateSuffix(Title)
        /\ booster_stats_display = <<>>

C5_Witness ==
    /\ ScatterCalled
    /\ PayloadRange[1] > max_payload
    /\ EnteredSite \in SitesIn(spacex_df)

UnknownSite(s) == s # "ALL" /\ s \notin SitesIn(spacex_df)

\* C6: for a site that is neither "ALL" nor the site of any record,
\* get_pie_chart returns no slice under the site-qualified title, and
\* get_scatter_chart returns no row, the no-data title and an empty summary.
C6_UnknownSite ==
    /\ (PieCalled /\ UnknownSite(EnteredSite)) =>
          /\ DOMAIN success_pie_chart.slices = {}
          /\ success_pie_chart.title =
                <<"Launch Outcomes (Success/Failure) for ", EnteredSite>>
    /\ (ScatterCalled /\ UnknownSite(EnteredSite)) =>
          /\ Plotted = <<>>
          /\ Title = NoDataTitle(EnteredSite)
          /\ booster_stats_display = <<>>

C6_Witness ==
    /\ ScatterCalled
    /\ UnknownSite(EnteredSite)
    /\ EnteredSite \in Sites
    /\ \E i \in DOMAIN spacex_df : InSelection(spacex_df[i], "ALL", PayloadRange)

\* C9: the title carries a success rate exactly when the plotted frame is not
\* empty; the rate is 100 * successes / records of the plotted frame, between 0
\* and 100, 100 exactly when every plotted record is a success and 0 exactly
\* when none is, and the title shows it rounded to two decimals (66.67 for the
\* worked example with "ALL" and (0, 10000)).
C9_OverallRate ==
    ScatterCalled =>
        /\ HasRateSuffix(Title) <=> Plotted # <<>>
        /\ Plotted # <<>> =>
              LET k == Successes(Plotted)
                  n == Len(Plotted)
                  success_rate == MeanTimes100(Plotted)
                  shown == Title[Len(Title) - 1]
              IN  /\ success_rate[1] * n = 100 * k * success_rate[2]
                  /\ 0 <= success_rate[1] /\ success_rate[1] <= 100 * success_rate[2]
                  /\ success_rate[1] = 100 * success_rate[2] <=> k = n
                  /\ success_rate[1] = 0 <=> k = 0
                  /\ Title[Len(Title) - 2] = " - Overall Success: "
                  /\ ShowsRate(shown, k, n)
        /\ (csv_rows = ExampleDataset /\ last_call.args = <<"ALL", <<0, 10000>>>>)
              => Title[Len(Title) - 1] = 6667

C9_Witness ==
    /\ ScatterCalled
    /\ csv_rows = ExampleDataset
    /\ last_call.args = <<"ALL", <<0, 10000>>>>
    /\ Title = <<"Payload vs. Success Correlation (All Sites)",
                 " - Overall Success: ", 6667, "%">>

\* C10: with the slider at its default, the smallest and largest payload of the
\* dataset, get_scatter_chart with the dropdown's default "ALL" plots the whole
\* dataset, and with a site s of the dataset it plots as many rows as the
\* slices of get_pie_chart(s) total.
C10_DefaultRange ==
    (ScatterCalled /\ PayloadRange = <<min_payload, max_payload>>) =>
        /\ EnteredSite = "ALL" => Plotted = spacex_df
        /\ EnteredSite \in SitesIn(spacex_df) =>
              Len(Plotted) = SliceTotal(get_pie_chart(spacex_df, EnteredSite).slices)

C10_Witness ==
    /\ ScatterCalled
    /\ site_dropdown = "ALL" /\ EnteredSite = site_dropdown
    /\ PayloadRange = payload_slider
    /\ payload_slider = <<min_payload, max_payload>>
    /\ min_payload < max_payload
    /\ Plotted = spacex_df

-----------------------------------------------------------------------------
(* Properties of the dashboard (Spec) *)

RequestsOf(c, cb) ==
    ncalls[c][cb] + Cardinality({req \in pending : req.change = c /\ req.cb = cb})

\* C7 as stated: every change of a control causes exactly one callback call.
C7_OneCallPerChange ==
    \A c \in DOMAIN changes :
        RequestsOf(c, "get_pie_chart") + RequestsOf(c, "get_scatter_chart") = 1

\* C7, amended: a change of the payload slider causes exactly one call, of
\* get_scatter_chart; a change of the site dropdown causes exactly two, one of
\* get_pie_chart and one of get_scatter_chart; each call gets the values the
\* controls had at the change, and no callback runs twice for one change.
C7_CallsPerChange ==
    \A c \in DOMAIN changes :
        /\ RequestsOf(c, "get_scatter_chart") = 1
        /\ RequestsOf(c, "get_pie_chart") =
              IF changes[c].control = "site-dropdown" THEN 1 ELSE 0
        /\ ncalls[c]["get_pie_chart"] <= 1 /\ ncalls[c]["get_scatter_chart"] <= 1
        /\ \A req \in pending :
              req.change = c =>
                 req.args = IF req.cb = "get_pie_chart"
                            THEN <<changes[c].site>>
                            ELSE <<changes[c].site, changes[c].range>>

C7_Witness ==
    /\ Len(changes) = 2
    /\ changes[1].control = "site-dropdown"
    /\ changes[2].control = "payload-slider"
    /\ pending = {}
    /\ ncalls[1]["get_pie_chart"] = 1 /\ ncalls[1]["get_scatter_chart"] = 1
    /\ ncalls[2]["get_pie_chart"] = 0 /\ ncalls[2]["get_scatter_chart"] = 1

\* C8: whatever callbacks have run, the dataset is the one loaded, row for row,
\* with the values computed from it at load, and the output of the call run
\* last is the one its own inputs give on the loaded dataset.
C8_DatasetUntouched ==
    /\ spacex_df = csv_rows
    /\ max_payload = ColumnMax(csv_rows) /\ min_payload = ColumnMin(csv_rows)
    /\ ScatterCalled =>
          /\ Plotted = SelectSeq(csv_rows,
                          LAMBDA r : InSelection(r, EnteredSite, PayloadRange))
          /\ HasRateSuffix(Title) <=>
                \E i \in DOMAIN csv_rows :
                    InSelection(csv_rows[i], EnteredSite, PayloadRange)
    /\ PieCalled =>
          SliceTotal(success_pie_chart.slices) =
             IF EnteredSite = "ALL" THEN Successes(csv_rows)
             ELSE Cardinality(SiteRows(csv_rows, EnteredSite))

C8_Witness ==
    /\ Len(changes) = 2
    /\ pending = {}
    /\ PieCalled
    /\ last_call.change = 2
    /\ success_payload_scatter_chart # NoFigure
    /\ Len(Plotted) = 1

====
